---- MODULE Spec2Model ----
(***************************************************************************)
(* Model of sample/asset_api/tools/create_db.py: the schema bootstrap of   *)
(* the asset database.  The script is a straight line of five calls        *)
(*                                                                         *)
(*     conn = sqlite3.connect("assets.db")           line 4                *)
(*     cursor = conn.cursor()                        line 7                *)
(*     cursor.execute("CREATE TABLE IF NOT EXISTS")  lines 10-19           *)
(*     conn.commit()                                 line 22               *)
(*     conn.close()                                  line 23               *)
(*                                                                         *)
(* with no try/except/finally: a call that raises ends the run there.      *)
(* Several runs of the script (processes) work on the same database file,  *)
(* next to the asset service that writes rows.  Whether the path can be    *)
(* opened and whether the engine fails are inputs of each call.            *)
(*                                                                         *)
(* Engine behaviour the script relies on (sqlite3 module, default          *)
(* isolation level): connect creates an empty file when none exists and    *)
(* takes no lock; a DDL statement is not wrapped in a transaction, so      *)
(* CREATE TABLE is one atomic, immediately durable statement; when the     *)
(* table exists the statement only reads the schema.                       *)
(***************************************************************************)
EXTENDS Integers, Sequences, FiniteSets, TLC

\* Bounds of the model.
NRuns == 2
MaxRows == 1

Runs == 1..NRuns
NULL == "NULL"

(***************************************************************************)
(* The table declaration, lines 11-18 of the script.                       *)
(***************************************************************************)
Col(n, t, nn, pk) == [name |-> n, type |-> t, notnull |-> nn, pk |-> pk]

\* Faulty variant: NOT NULL left off column name.
AssetColumnsNameNullable ==
    { Col("id", "INTEGER", FALSE, TRUE),
      Col("name", "TEXT", FALSE, FALSE),
      Col("code", "TEXT", TRUE, FALSE),
      Col("price", "REAL", TRUE, FALSE),
      Col("website", "TEXT", FALSE, FALSE),
      Col("description", "TEXT", FALSE, FALSE) }

AssetColumns ==
    { Col("id", "INTEGER", FALSE, TRUE),
      Col("name", "TEXT", TRUE, FALSE),
      Col("code", "TEXT", TRUE, FALSE),
      Col("price", "REAL", TRUE, FALSE),
      Col("website", "TEXT", FALSE, FALSE),
      Col("description", "TEXT", FALSE, FALSE) }

TableName == "asset"

\* A table named asset made by something else than this script, with another
\* column definition (the case the statement's IF NOT EXISTS passes over).
LegacyColumns ==
    { Col("id", "INTEGER", FALSE, TRUE),
      Col("name", "TEXT", FALSE, FALSE),
      Col("price", "TEXT", FALSE, FALSE) }

Table(n, cols) == [name |-> n, cols |-> cols]

ColNames(cols) == { c.name : c \in cols }

HasTable(cat, n) == \E t \in cat : t.name = n

TableOf(cat, n) == CHOOSE t \in cat : t.name = n

(***************************************************************************)
(* Rows, as the asset service writes them.  The script never writes a row; *)
(* the inserts are here so that a run meets tables that hold data, and so  *)
(* that the declared constraints decide something.                         *)
(***************************************************************************)
SampleRows ==
    { [name |-> "n", code |-> "c", price |-> "1.0", website |-> "w", description |-> "d"],
      [name |-> "n", code |-> "c", price |-> "1.0", website |-> NULL, description |-> NULL],
      [name |-> NULL, code |-> "c", price |-> "1.0", website |-> "w", description |-> NULL] }

\* The engine's NOT NULL check of a candidate row against a column definition.
Accepts(cols, r) ==
    \A c \in cols : (c.notnull /\ c.name \in DOMAIN r) => r[c.name] # NULL

\* INTEGER PRIMARY KEY: the engine assigns the next free id.
NextId(rs) == Cardinality(rs) + 1

Stored(cols, r, id) ==
    [n \in ColNames(cols) |-> IF n = "id" THEN id ELSE r[n]]

VARIABLES
    file,       \* the database file exists
    catalog,    \* the tables committed in the file: a set of Table records
    rows,       \* the committed rows of table asset
    lock,       \* the file lock the asset service holds: none, reserved, exclusive
    pc,         \* per run: the call the run is about to make, or done / raised
    conn,       \* per run: the connection handle: none, open, closed
    err,        \* per run: the error the run raised, or none
    steps,      \* per run: the calls made so far, each with its outcome
    atOpen,     \* per run: what the file held when the run made its first call
    wrote,      \* per run: some call of the run changed the committed contents
    fresh       \* the file did not exist when the behaviour began

vars == <<file, catalog, rows, lock, pc, conn, err, steps, atOpen, wrote, fresh>>

disk == <<file, catalog, rows>>

EnvErrors == {"cantopen", "busy", "fault"}

Ended(p) == pc[p] \in {"done", "raised"}

(***************************************************************************)
(* Control flow of the module body: the calls in textual order; a call     *)
(* that raises is not caught, so the run ends with the exception.          *)
(***************************************************************************)
\* Faulty variant: commit placed before execute.
AfterSwapped(call) ==
    CASE call = "connect" -> "cursor"
      [] call = "cursor"  -> "commit"
      [] call = "commit"  -> "execute"
      [] call = "execute" -> "close"
      [] call = "close"   -> "done"

After(call) ==
    CASE call = "connect" -> "cursor"
      [] call = "cursor"  -> "execute"
      [] call = "execute" -> "commit"
      [] call = "commit"  -> "close"
      [] call = "close"   -> "done"

\* Faulty variants: the error swallowed (except: pass), the call retried.
NextPcSwallow(call, ok) == After(call)

NextPcRetry(call, ok) == IF ok THEN After(call) ELSE call

\* No try/except in the script: the first call that raises ends the run.
NextPc(call, ok) == IF ok THEN After(call) ELSE "raised"

(***************************************************************************)
(* The engine calls.  Each yields what the call returns to the script (ok, *)
(* or the error it raises) and what it leaves in the file.                 *)
(***************************************************************************)

\* Faulty variant: the file is made before the open is tried.
OpenResultPartial(canOpen) ==
    IF ~canOpen
    THEN [ok |-> FALSE, err |-> "cantopen", file |-> TRUE]
    ELSE [ok |-> TRUE, err |-> "none", file |-> TRUE]

\* sqlite3.connect: opens the file, creating an empty one when none exists;
\* when the path cannot be opened it raises and creates nothing.
OpenResult(canOpen) ==
    IF ~canOpen
    THEN [ok |-> FALSE, err |-> "cantopen", file |-> file]
    ELSE [ok |-> TRUE, err |-> "none", file |-> TRUE]

\* Faulty variant: an existing table of another definition is an error.
CreateTableStrict(cat, rs, n, cols, ifNotExists) ==
    IF HasTable(cat, n)
    THEN IF ifNotExists /\ TableOf(cat, n).cols = cols
         THEN [ok |-> TRUE, err |-> "none", catalog |-> cat, rows |-> rs]
         ELSE [ok |-> FALSE, err |-> "mismatch", catalog |-> cat, rows |-> rs]
    ELSE [ok |-> TRUE, err |-> "none", catalog |-> cat \cup {Table(n, cols)}, rows |-> rs]

\* CREATE TABLE [IF NOT EXISTS] n (cols), one atomic statement of the engine:
\* the existence test and the creation happen under the engine's own lock.
CreateTable(cat, rs, n, cols, ifNotExists) ==
    IF HasTable(cat, n)
    THEN IF ifNotExists
         THEN [ok |-> TRUE, err |-> "none", catalog |-> cat, rows |-> rs]
         ELSE [ok |-> FALSE, err |-> "exists", catalog |-> cat, rows |-> rs]
    ELSE [ok |-> TRUE, err |-> "none", catalog |-> cat \cup {Table(n, cols)}, rows |-> rs]

\* The statement meets the service's lock (and raises "database is locked"
\* once the binding's busy timeout has passed): it writes, and so needs the
\* file unlocked, only when the table is missing; otherwise it reads the
\* schema, which only an exclusive lock forbids.
Blocked ==
    \/ lock = "exclusive"
    \/ lock = "reserved" /\ ~HasTable(catalog, TableName)

Raised(e) == [ok |-> FALSE, err |-> e, catalog |-> catalog, rows |-> rows]

\* Faulty variants of the statement of lines 10-19, against which the
\* properties are tried: without the existence guard, as drop-and-create, and
\* as an existence test made when the run started followed by a plain create.
StatementNoGuard(p) == CreateTable(catalog, rows, TableName, AssetColumns, FALSE)

StatementDropCreate(p) ==
    [ok |-> TRUE, err |-> "none",
     catalog |-> {t \in catalog : t.name # TableName} \cup {Table(TableName, AssetColumns)},
     rows |-> {}]

StatementCheckThenCreate(p) ==
    IF HasTable(atOpen[p].catalog, TableName)
    THEN [ok |-> TRUE, err |-> "none", catalog |-> catalog, rows |-> rows]
    ELSE CreateTable(catalog, rows, TableName, AssetColumns, FALSE)

\* cursor.execute("CREATE TABLE IF NOT EXISTS asset (...)"), lines 10-19.
Statement(p) == CreateTable(catalog, rows, TableName, AssetColumns, TRUE)

ExecuteResult(p, fault) ==
    IF fault THEN Raised("fault")
    ELSE IF Blocked THEN Raised("busy")
    ELSE Statement(p)

\* conn.commit(), line 22.  The statement is already durable (no transaction
\* is open after a DDL statement), so commit leaves the file as it is; the call
\* is still taken to raise when the engine is at fault, which is more than the
\* binding does and never less.
CommitResult(fault) ==
    IF fault
    THEN [ok |-> FALSE, err |-> "fault"]
    ELSE [ok |-> TRUE, err |-> "none"]

\* What a run finds when it starts: the tables, whether asset holds rows, and
\* whether a run has already completed.
Seen ==
    [catalog |-> catalog, populated |-> rows # {},
     prior |-> \E q \in Runs : pc[q] = "done"]

Log(p, call, ok) == [steps EXCEPT ![p] = Append(@, [call |-> call, ok |-> ok])]

Fail(p, r) == [err EXCEPT ![p] = IF r.ok THEN @ ELSE r.err]

(***************************************************************************)
(* The script, one action per call.                                        *)
(***************************************************************************)

\* line 4: conn = sqlite3.connect("assets.db")
Connect(p) ==
    /\ pc[p] = "connect"
    /\ \E canOpen \in BOOLEAN :
        LET r == OpenResult(canOpen) IN
        /\ file' = r.file
        /\ conn' = [conn EXCEPT ![p] = IF r.ok THEN "open" ELSE @]
        /\ err' = Fail(p, r)
        /\ pc' = [pc EXCEPT ![p] = NextPc("connect", r.ok)]
        /\ steps' = Log(p, "connect", r.ok)
    /\ atOpen' = [atOpen EXCEPT ![p] = Seen]
    /\ UNCHANGED <<catalog, rows, lock, wrote, fresh>>

\* line 7: cursor = conn.cursor()
Cursor(p) ==
    /\ pc[p] = "cursor"
    /\ pc' = [pc EXCEPT ![p] = NextPc("cursor", TRUE)]
    /\ steps' = Log(p, "cursor", TRUE)
    /\ UNCHANGED <<file, catalog, rows, lock, conn, err, atOpen, wrote, fresh>>

\* lines 10-19: cursor.execute(...)
Execute(p) ==
    /\ pc[p] = "execute"
    /\ \E fault \in BOOLEAN :
        LET r == ExecuteResult(p, fault) IN
        /\ catalog' = r.catalog
        /\ rows' = r.rows
        /\ err' = Fail(p, r)
        /\ pc' = [pc EXCEPT ![p] = NextPc("execute", r.ok)]
        /\ steps' = Log(p, "execute", r.ok)
        /\ wrote' = [wrote EXCEPT ![p] = @ \/ r.catalog # catalog \/ r.rows # rows]
    /\ UNCHANGED <<file, lock, conn, atOpen, fresh>>

\* line 22: conn.commit()
Commit(p) ==
    /\ pc[p] = "commit"
    /\ \E fault \in BOOLEAN :
        LET r == CommitResult(fault) IN
        /\ err' = Fail(p, r)
        /\ pc' = [pc EXCEPT ![p] = NextPc("commit", r.ok)]
        /\ steps' = Log(p, "commit", r.ok)
    /\ UNCHANGED <<file, catalog, rows, lock, conn, atOpen, wrote, fresh>>

\* line 23: conn.close()
Close(p) ==
    /\ pc[p] = "close"
    /\ conn' = [conn EXCEPT ![p] = "closed"]
    /\ pc' = [pc EXCEPT ![p] = NextPc("close", TRUE)]
    /\ steps' = Log(p, "close", TRUE)
    /\ UNCHANGED <<file, catalog, rows, lock, err, atOpen, wrote, fresh>>

(***************************************************************************)
(* What the script runs next to: the asset service, which writes rows in   *)
(* transactions of its own.                                                *)
(***************************************************************************)
SvcBegin ==
    /\ file /\ lock = "none"
    /\ lock' = "reserved"
    /\ UNCHANGED <<file, catalog, rows, pc, conn, err, steps, atOpen, wrote, fresh>>

SvcFlush ==
    /\ lock = "reserved"
    /\ lock' = "exclusive"
    /\ UNCHANGED <<file, catalog, rows, pc, conn, err, steps, atOpen, wrote, fresh>>

SvcInsert ==
    /\ lock = "exclusive"
    /\ HasTable(catalog, TableName)
    /\ Cardinality(rows) < MaxRows
    /\ \E r \in SampleRows :
        LET cols == TableOf(catalog, TableName).cols IN
        /\ Accepts(cols, r)
        /\ rows' = rows \cup {Stored(cols, r, NextId(rows))}
    /\ lock' = "none"
    /\ UNCHANGED <<file, catalog, pc, conn, err, steps, atOpen, wrote, fresh>>

SvcEnd ==
    /\ lock # "none"
    /\ lock' = "none"
    /\ UNCHANGED <<file, catalog, rows, pc, conn, err, steps, atOpen, wrote, fresh>>

(***************************************************************************)
(* Initial states: no file, an empty file, or a file that already holds a  *)
(* table asset (as declared here, or of another definition) with rows the  *)
(* table accepts.                                                          *)
(***************************************************************************)
InitRows(cat) ==
    IF ~HasTable(cat, TableName) \/ MaxRows = 0 THEN {{}}
    ELSE LET cols == TableOf(cat, TableName).cols IN
         {{}} \cup { {Stored(cols, r, 1)} : r \in {s \in SampleRows : Accepts(cols, s)} }

Init ==
    /\ \/ /\ file = FALSE /\ fresh = TRUE
          /\ catalog = {} /\ rows = {}
       \/ /\ file = TRUE /\ fresh = FALSE
          /\ catalog \in { {}, {Table(TableName, AssetColumns)}, {Table(TableName, LegacyColumns)} }
          /\ rows \in InitRows(catalog)
    /\ lock = "none"
    /\ pc = [p \in Runs |-> "connect"]
    /\ conn = [p \in Runs |-> "none"]
    /\ err = [p \in Runs |-> "none"]
    /\ steps = [p \in Runs |-> <<>>]
    /\ atOpen = [p \in Runs |-> [catalog |-> {}, populated |-> FALSE, prior |-> FALSE]]
    /\ wrote = [p \in Runs |-> FALSE]

Next ==
    \/ \E p \in Runs : Connect(p)
    \/ \E p \in Runs : Cursor(p)
    \/ \E p \in Runs : Execute(p)
    \/ \E p \in Runs : Commit(p)
    \/ \E p \in Runs : Close(p)
    \/ SvcBegin
    \/ SvcFlush
    \/ SvcInsert
    \/ SvcEnd

Spec == Init /\ [][Next]_vars

(***************************************************************************)
(* Properties.                                                             *)
(***************************************************************************)
AssetTables == {t \in catalog : t.name = TableName}

Started(p) == Len(steps[p]) > 0

\* A run that ended and met no failure of the path, the lock or the engine.
Undisturbed(p) == Ended(p) /\ err[p] \notin EnvErrors

\* C1 - Idempotence: a run started on a database that a completed run has made
\* on a fresh path completes without error (whenever path, lock and engine do
\* not fail it), changes nothing in the database, and the database holds
\* exactly one table named asset, the one the first run declared.
C1_Idempotent ==
    \A q \in Runs :
        (fresh /\ atOpen[q].prior) =>
            /\ Undisturbed(q) => pc[q] = "done"
            /\ ~wrote[q]
            /\ catalog = atOpen[q].catalog
            /\ Cardinality(AssetTables) = 1

C1_Witness ==
    \E q \in Runs : fresh /\ atOpen[q].prior /\ pc[q] = "done"

\* C2 - Data preservation: when table asset exists, no call of any run changes
\* the table's definition or its rows.
C2_DataPreserved ==
    [][ (HasTable(catalog, TableName) /\ steps' # steps)
            => (catalog' = catalog /\ rows' = rows) ]_vars

C2_Witness ==
    \E p \in Runs :
        /\ atOpen[p].populated
        /\ pc[p] = "done"
        /\ rows # {}

\* C3 - Resource release: whenever a run has ended, by completing or by an
\* error of the open, the declaration or the commit, its connection is not
\* left open.
C3_ReleasedOnEveryExit ==
    \A p \in Runs : Ended(p) => conn[p] # "open"

\* C4 - No check-then-create race: in every interleaving no run fails with a
\* duplicate-table error, there is never more than one table asset, and once
\* all runs have ended there is exactly one (when at least one of them was not
\* failed by path, lock or engine).
C4_NoCreateRace ==
    /\ \A p \in Runs : err[p] # "exists"
    /\ Cardinality(AssetTables) <= 1
    /\ ((\A p \in Runs : Ended(p)) /\ (\E p \in Runs : Undisturbed(p)))
           => Cardinality(AssetTables) = 1

\* Every run started before the table existed, and all have completed.
C4_Witness ==
    /\ NRuns >= 2
    /\ \A p \in Runs : pc[p] = "done" /\ ~HasTable(atOpen[p].catalog, TableName)

\* C5 - No partial success: a run that ended either completed, with no error,
\* every call made and succeeded, and table asset committed in the file, or
\* ended with the error it raised.
C5_NoPartialSuccess ==
    \A p \in Runs :
        /\ pc[p] = "done" =>
            /\ err[p] = "none"
            /\ file /\ HasTable(catalog, TableName)
            /\ \A i \in 1..Len(steps[p]) : steps[p][i].ok
        /\ pc[p] = "raised" => err[p] # "none"

C5_Witness ==
    \E p, q \in Runs : pc[p] = "done" /\ pc[q] = "raised" /\ err[q] = "fault"

\* C6 - Open failure leaves nothing behind: a run whose open fails ends there
\* with the open error, having made no other call, and that failing call
\* leaves file, tables and rows as they were.
C6_OpenFailureClean ==
    [][ \A p \in Runs :
            err'[p] = "cantopen" =>
                /\ pc'[p] = "raised"
                /\ steps'[p] = <<[call |-> "connect", ok |-> FALSE]>>
                /\ conn'[p] = "none"
                /\ err[p] = "none" => disk' = disk ]_vars

C6_Witness ==
    \E p \in Runs : err[p] = "cantopen" /\ ~file

\* C7 - No internal retry: no call is made twice in a run; a call that failed
\* (a busy lock included) ended the run with its error, and nothing but a
\* release of the connection follows it.
C7_NoRetry ==
    \A p \in Runs :
        /\ \A i, j \in 1..Len(steps[p]) :
               i # j => steps[p][i].call # steps[p][j].call
        /\ \A i \in 1..Len(steps[p]) :
               ~steps[p][i].ok =>
                   /\ pc[p] = "raised" /\ err[p] # "none"
                   /\ \A j \in (i+1)..Len(steps[p]) : steps[p][j].call = "close"

C7_Witness ==
    \E p \in Runs : err[p] = "busy" /\ pc[p] = "raised"

\* The column set and the constraints the data model states for asset.
DeclaredNames == {"id", "name", "code", "price", "website", "description"}

Required == {"name", "code", "price"}

AsDeclared(t) ==
    /\ ColNames(t.cols) = DeclaredNames
    /\ Cardinality(t.cols) = Cardinality(DeclaredNames)
    /\ \A c \in t.cols :
        /\ c.pk <=> c.name = "id"
        /\ c.name \in Required => c.notnull
        /\ c.name \in {"website", "description"} => ~c.notnull

\* C8 - Fresh-database result and schema fidelity: on a file that did not
\* exist, the step that makes table asset leaves a file with that one table and
\* no rows; the table has exactly the columns id, name, code, price, website,
\* description, id the primary key, name, code and price refusing null,
\* website and description taking it.
C8_FreshSchema ==
    /\ [] ( (fresh /\ catalog # {}) =>
              /\ file
              /\ Cardinality(catalog) = 1
              /\ \A t \in catalog :
                  /\ t.name = "asset"
                  /\ AsDeclared(t)
                  /\ \A r \in SampleRows :
                        Accepts(t.cols, r) <=> \A n \in Required : r[n] # NULL
              /\ \A r \in rows : \A n \in Required : r[n] # NULL )
    /\ [][ (fresh /\ catalog = {} /\ catalog' # {}) => rows' = {} ]_vars

C8_Witness ==
    /\ fresh
    /\ \E p \in Runs : pc[p] = "done" /\ wrote[p]
    /\ \E r \in rows : r["website"] = NULL

\* C9 - Incompatible pre-existing table: a run started on a database whose
\* table asset has another column definition leaves that definition and its
\* rows as they are, and completes (whenever path, lock and engine do not fail
\* it) instead of failing on the declaration.
C9_LegacyLeftInPlace ==
    \A p \in Runs :
        (Started(p) /\ atOpen[p].catalog = {Table(TableName, LegacyColumns)}) =>
            /\ catalog = atOpen[p].catalog
            /\ ~wrote[p]
            /\ Undisturbed(p) => pc[p] = "done"

C9_Witness ==
    \E p \in Runs :
        /\ atOpen[p].catalog = {Table(TableName, LegacyColumns)}
        /\ atOpen[p].populated
        /\ pc[p] = "done"

\* The order of the calls in the script.
Order == <<"connect", "cursor", "execute", "commit", "close">>

\* C10 - Step ordering: the calls of a run are an initial part of connect,
\* cursor, execute, commit, close in that order, each made only when the one
\* before it succeeded, and a closed connection has close as its last call.
C10_StepOrder ==
    \A p \in Runs :
        /\ Len(steps[p]) <= Len(Order)
        /\ \A i \in 1..Len(steps[p]) :
            /\ steps[p][i].call = Order[i]
            /\ i < Len(steps[p]) => steps[p][i].ok
        /\ conn[p] = "closed" =>
            /\ steps[p] # <<>>
            /\ steps[p][Len(steps[p])].call = "close"

C10_Witness ==
    \E p \in Runs : pc[p] = "done" /\ conn[p] = "closed" /\ Len(steps[p]) = Len(Order)

====
